---- MODULE Spec2Model ----
(***************************************************************************)
(* pyunifiprotect/data/base.py: the object-mapping layer.                  *)
(*                                                                         *)
(* Python values are tagged records ([kind |-> ...]); a Python dict is a   *)
(* TLA+ function from key strings to values, a list is a sequence, and a   *)
(* Typed Object is [kind |-> "obj", cls, v (its __dict__), api (_api)].    *)
(* The per-class ClassVars _protect_objs/_protect_lists/_protect_dicts are *)
(* the variable cache; an operator that may call a _get_protect_* method   *)
(* takes the cache and returns [r |-> result, t |-> the classes it called  *)
(* the method on], which the action folds into the cache.                  *)
(* Each class keeps the fields the conversions treat specially (remapped,  *)
(* pre-processed, nested, dropped) and one plain scalar; the other scalar  *)
(* fields of the source behave as the plain one does.                      *)
(* origin remembers the api argument of the from_unifi_dict call that      *)
(* built the caller's object (None when the constructor built it).         *)
(***************************************************************************)
EXTENDS Integers, Sequences, FiniteSets, TLC

VARIABLES debug, cache, obj, hist, calls, origin

vars == <<debug, cache, obj, hist, calls, origin>>

(* ------------------------------ bounds -------------------------------- *)

\* the number of API calls made in one run of the process
MaxCalls == 3

(* ------------------------------ values -------------------------------- *)

None == [kind |-> "none"]
Err == [kind |-> "error"]
IntV(n) == [kind |-> "int", v |-> n]
StrV(s) == [kind |-> "str", v |-> s]
EnumV(s) == [kind |-> "enum", v |-> s]
BoolV(b) == [kind |-> "bool", v |-> b]
DateTime(ms) == [kind |-> "datetime", v |-> ms]
TimeDelta(ms) == [kind |-> "timedelta", v |-> ms]
ApiRef(a) == [kind |-> "api", v |-> a]
Dict(f) == [kind |-> "dict", v |-> f]
List(s) == [kind |-> "list", v |-> s]
MkObj(c, f, a) == [kind |-> "obj", cls |-> c, v |-> f, api |-> a]

IsDict(x) == x.kind = "dict"
IsList(x) == x.kind = "list"
IsObj(x) == x.kind = "obj"

EmptyMap == [k \in {} |-> None]
Has(data, k) == k \in DOMAIN data
Get(data, k) == IF k \in DOMAIN data THEN data[k] ELSE None
Put(data, k, x) == [y \in (DOMAIN data) \cup {k} |-> IF y = k THEN x ELSE data[y]]
Pop(data, k) == [y \in (DOMAIN data) \ {k} |-> data[y]]
\* dict.update(other)
Update(data, other) ==
  [y \in (DOMAIN data) \cup (DOMAIN other) |-> IF y \in DOMAIN other THEN other[y] ELSE data[y]]

\* a set of strings as a sequence, in an arbitrary fixed order
RECURSIVE SetToSeq(_)
SetToSeq(S) ==
  IF S = {} THEN <<>> ELSE LET x == CHOOSE y \in S : TRUE IN <<x>> \o SetToSeq(S \ {x})

(* --------------------------- class hierarchy -------------------------- *)

SHAPE_SINGLETON == "singleton"
SHAPE_LIST == "list"
SHAPE_DICT == "dict"

\* The classes of base.py, and NestedHolder: a subclass of ProtectBaseObject
\* declared by a caller with a list-shaped and a mapping-shaped field of a
\* Typed Object type (the classes of base.py declare single nested fields only).
Classes ==
  { "ProtectBaseObject", "ProtectModel", "ProtectModelWithId", "ProtectDeviceModel",
    "WiredConnectionState", "WirelessConnectionState", "WifiConnectionState",
    "ProtectAdoptableDeviceModel", "ProtectMotionDeviceModel", "NestedHolder" }

Parent(c) ==
  CASE c = "ProtectModel" -> "ProtectBaseObject"
    [] c = "ProtectModelWithId" -> "ProtectModel"
    [] c = "ProtectDeviceModel" -> "ProtectModelWithId"
    [] c = "WiredConnectionState" -> "ProtectBaseObject"
    [] c = "WirelessConnectionState" -> "ProtectBaseObject"
    [] c = "WifiConnectionState" -> "WirelessConnectionState"
    [] c = "ProtectAdoptableDeviceModel" -> "ProtectDeviceModel"
    [] c = "ProtectMotionDeviceModel" -> "ProtectAdoptableDeviceModel"
    [] c = "NestedHolder" -> "ProtectBaseObject"
    [] OTHER -> "object"

\* the method resolution order of c: c, its parent, ..., ProtectBaseObject
RECURSIVE Ancestry(_)
Ancestry(c) == IF c = "ProtectBaseObject" THEN <<c>> ELSE <<c>> \o Ancestry(Parent(c))
MROTable == [c \in Classes |-> Ancestry(c)]
MRO(c) == MROTable[c]

IsSubclass(c, k) == \E i \in 1..Len(MRO(c)) : MRO(c)[i] = k

Fld(n, t, s, req) == [name |-> n, type |-> t, shape |-> s, required |-> req]

\* the fields a class declares itself (a representative of each kind of field)
OwnFields(c) ==
  CASE c = "ProtectModel" -> << Fld("model", "ModelType", SHAPE_SINGLETON, FALSE) >>
    [] c = "ProtectModelWithId" -> << Fld("id", "str", SHAPE_SINGLETON, TRUE) >>
    [] c = "ProtectDeviceModel" ->
         << Fld("uptime", "timedelta", SHAPE_SINGLETON, FALSE),
            Fld("last_seen", "datetime", SHAPE_SINGLETON, TRUE) >>
    [] c = "WiredConnectionState" -> << Fld("phy_rate", "int", SHAPE_SINGLETON, FALSE) >>
    [] c = "WirelessConnectionState" ->
         << Fld("signal_quality", "int", SHAPE_SINGLETON, FALSE) >>
    [] c = "WifiConnectionState" ->
         << Fld("phy_rate", "int", SHAPE_SINGLETON, FALSE),
            Fld("channel", "int", SHAPE_SINGLETON, FALSE) >>
    [] c = "ProtectAdoptableDeviceModel" ->
         << Fld("wired_connection_state", "WiredConnectionState", SHAPE_SINGLETON, FALSE),
            Fld("wifi_connection_state", "WifiConnectionState", SHAPE_SINGLETON, FALSE),
            Fld("bluetooth_connection_state", "WirelessConnectionState", SHAPE_SINGLETON, FALSE),
            Fld("bridge_id", "str", SHAPE_SINGLETON, FALSE) >>
    [] c = "ProtectMotionDeviceModel" ->
         << Fld("is_dark", "bool", SHAPE_SINGLETON, TRUE),
            Fld("last_motion_event_id", "str", SHAPE_SINGLETON, FALSE) >>
    [] c = "NestedHolder" ->
         << Fld("items", "WiredConnectionState", SHAPE_LIST, FALSE),
            Fld("lookup", "WiredConnectionState", SHAPE_DICT, FALSE) >>
    [] OTHER -> << >>

\* cls.__fields__: the inherited fields first, then the class's own
RECURSIVE InheritedFields(_)
InheritedFields(c) ==
  IF c = "ProtectBaseObject" THEN << >> ELSE InheritedFields(Parent(c)) \o OwnFields(c)
FieldsTable == [c \in Classes |-> InheritedFields(c)]
Fields(c) == FieldsTable[c]

FieldNamesTable == [c \in Classes |-> { Fields(c)[i].name : i \in 1..Len(Fields(c)) }]
FieldNames(c) == FieldNamesTable[c]
\* cls.__fields__[n] (a subclass that declares a field again replaces it)
FieldTable ==
  [c \in Classes |->
     [n \in FieldNames(c) |->
        Fields(c)[CHOOSE i \in 1..Len(Fields(c)) :
                    /\ Fields(c)[i].name = n
                    /\ \A j \in 1..Len(Fields(c)) : Fields(c)[j].name = n => j <= i]]]
Field(c, n) == FieldTable[c][n]

(* ------------------------- schema introspector ------------------------ *)

\* issubclass(field.type_, ProtectBaseObject)
IsProtectType(t) == t \in Classes

\* the three branches of _set_protect_subtypes, as the code nests them: the
\* list test is an "if" of its own, the mapping test a second "if" whose "else"
\* is the single-object branch
RecordedInLists(f) == IsProtectType(f.type) /\ f.shape = SHAPE_LIST
RecordedInDicts(f) == IsProtectType(f.type) /\ f.shape = SHAPE_DICT
RecordedInObjs(f) == IsProtectType(f.type) /\ ~(f.shape = SHAPE_DICT)

\* the three maps after the loop over cls.__fields__
ObjsOf(c) ==
  [n \in {m \in FieldNames(c) : RecordedInObjs(Field(c, m))} |-> Field(c, n).type]
ListsOf(c) ==
  [n \in {m \in FieldNames(c) : RecordedInLists(Field(c, m))} |-> Field(c, n).type]
DictsOf(c) ==
  [n \in {m \in FieldNames(c) : RecordedInDicts(Field(c, m))} |-> Field(c, n).type]

\* what _set_protect_subtypes computes for each class
SubtypesTable ==
  [c \in Classes |-> [objs |-> ObjsOf(c), lists |-> ListsOf(c), dicts |-> DictsOf(c)]]

\* the class attributes of a class that was never introspected (None)
Unset == [set |-> FALSE, objs |-> EmptyMap, lists |-> EmptyMap, dicts |-> EmptyMap, n |-> 0]

\* cls._set_protect_subtypes(): sets the three attributes on cls itself;
\* n counts the computations made for cls
SetProtectSubtypes(ch, c) ==
  [ch EXCEPT ![c] = [set |-> TRUE,
                     objs |-> SubtypesTable[c].objs,
                     lists |-> SubtypesTable[c].lists,
                     dicts |-> SubtypesTable[c].dicts,
                     n |-> ch[c].n + 1]]

\* Python's attribute lookup of cls._protect_objs: the first class of the MRO
\* that has the attribute set to something other than None; "none" when the
\* lookup ends at ProtectBaseObject's None
RECURSIVE FirstSet(_, _)
FirstSet(ch, mro) ==
  IF mro = << >> THEN "none"
  ELSE IF ch[Head(mro)].set THEN Head(mro) ELSE FirstSet(ch, Tail(mro))
AttrOwner(ch, c) == FirstSet(ch, MRO(c))

\* the getter's two ways out: the attribute found on owner, or computed for c
Got(ch, c, owner) ==
  IF owner # "none"
    THEN [owner |-> owner, ch |-> ch]
    ELSE [owner |-> c, ch |-> SetProtectSubtypes(ch, c)]

\* _get_protect_objs / _get_protect_lists / _get_protect_dicts: the class whose
\* attribute is returned, and the cache after the call
GetProtect(ch, c) == Got(ch, c, AttrOwner(ch, c))

\* the names of cls.__fields__ in declaration order
FieldNameSeqTable ==
  [c \in Classes |-> [i \in 1..Len(Fields(c)) |-> Fields(c)[i].name]]

\* the keys of a map of class k, in the order _set_protect_subtypes inserted them
KeysInOrder(k, map) == SelectSeq(FieldNameSeqTable[k], LAMBDA n : n \in DOMAIN map)

(* ------------------------------- utils -------------------------------- *)

\* utils.to_snake_case on the keys of the model
to_snake_case(k) ==
  CASE k = "modelKey" -> "model_key"
    [] k = "lastSeen" -> "last_seen"
    [] k = "wiredConnectionState" -> "wired_connection_state"
    [] k = "wifiConnectionState" -> "wifi_connection_state"
    [] k = "bluetoothConnectionState" -> "bluetooth_connection_state"
    [] k = "bridgeId" -> "bridge_id"
    [] k = "phyRate" -> "phy_rate"
    [] k = "signalQuality" -> "signal_quality"
    [] k = "isDark" -> "is_dark"
    [] k = "lastMotionEventId" -> "last_motion_event_id"
    [] k = "totallyUnknownField" -> "totally_unknown_field"
    [] OTHER -> k

\* utils.to_camel_case on the keys of the model
to_camel_case(k) ==
  CASE to_snake_case(k) = "model_key" -> "modelKey"
    [] to_snake_case(k) = "last_seen" -> "lastSeen"
    [] to_snake_case(k) = "wired_connection_state" -> "wiredConnectionState"
    [] to_snake_case(k) = "wifi_connection_state" -> "wifiConnectionState"
    [] to_snake_case(k) = "bluetooth_connection_state" -> "bluetoothConnectionState"
    [] to_snake_case(k) = "bridge_id" -> "bridgeId"
    [] to_snake_case(k) = "phy_rate" -> "phyRate"
    [] to_snake_case(k) = "signal_quality" -> "signalQuality"
    [] to_snake_case(k) = "is_dark" -> "isDark"
    [] to_snake_case(k) = "last_motion_event_id" -> "lastMotionEventId"
    [] to_snake_case(k) = "totally_unknown_field" -> "totallyUnknownField"
    [] OTHER -> k

\* utils.convert_unifi_data(value, field): the field's scalar coercion; a
\* value that already has the field's type is left alone
convert_unifi_data(x, f) ==
  IF f.type = "ModelType" /\ x.kind = "str" THEN EnumV(x.v) ELSE x

\* utils.process_datetime(data, key)
process_datetime(data, key) ==
  IF Get(data, key) = None THEN None
  ELSE IF data[key].kind = "int" THEN DateTime(data[key].v) ELSE data[key]

\* utils.serialize_unifi_obj: keys to camelCase at every depth, scalars to
\* JSON-safe primitives
RECURSIVE serialize_unifi_obj(_)
serialize_unifi_obj(x) ==
  CASE x.kind = "dict" ->
         Dict([k \in {to_camel_case(y) : y \in DOMAIN x.v} |->
                 serialize_unifi_obj(
                   x.v[IF \E y \in DOMAIN x.v : y # k /\ to_camel_case(y) = k
                         THEN CHOOSE y \in DOMAIN x.v : y # k /\ to_camel_case(y) = k
                         ELSE k])])
    [] x.kind = "list" -> List([i \in 1..Len(x.v) |-> serialize_unifi_obj(x.v[i])])
    [] x.kind = "enum" -> StrV(x.v)
    [] x.kind = "datetime" -> IntV(x.v)
    [] x.kind = "timedelta" -> IntV(x.v)
    [] OTHER -> x

(* ------------------------ wire -> native conversion ------------------- *)

OwnRemaps(c) ==
  CASE c = "ProtectModel" -> << <<"modelKey", "model">> >>
    [] c = "ProtectAdoptableDeviceModel" -> << <<"bridge", "bridgeId">> >>
    [] OTHER -> << >>

\* cls._get_unifi_remaps(): {**super()._get_unifi_remaps(), ...} as a sequence
\* of <<from_key, to_key>>, the ancestors' pairs first
RECURSIVE MergedRemaps(_)
MergedRemaps(c) ==
  IF c = "ProtectBaseObject" THEN << >> ELSE MergedRemaps(Parent(c)) \o OwnRemaps(c)
RemapsTable == [c \in Classes |-> MergedRemaps(c)]
get_unifi_remaps(c) == RemapsTable[c]

\* the remap loop with data[to_key] = data[from_key], from_key left in place
RECURSIVE ApplyRemapsKeepingFromKey(_, _)
ApplyRemapsKeepingFromKey(data, rm) ==
  IF rm = << >> THEN data
  ELSE LET from_key == Head(rm)[1]
           to_key == Head(rm)[2]
       IN ApplyRemapsKeepingFromKey(IF Has(data, from_key)
                                      THEN Put(data, to_key, data[from_key])
                                      ELSE data,
                                    Tail(rm))

\* for from_key, to_key in remaps: if from_key in data: data[to_key] = data.pop(from_key)
RECURSIVE ApplyRemaps(_, _)
ApplyRemaps(data, rm) ==
  IF rm = << >> THEN data
  ELSE LET from_key == Head(rm)[1]
           to_key == Head(rm)[2]
       IN ApplyRemaps(IF Has(data, from_key)
                        THEN Put(Pop(data, from_key), to_key, data[from_key])
                        ELSE data,
                      Tail(rm))

\* for key in list(data.keys()): data[to_snake_case(key)] = data.pop(key)
\* (when a key and its snake_case form are both present, the converted key's
\* value is the one that is left, whichever comes first)
SnakeKeys(data) ==
  [s \in {to_snake_case(k) : k \in DOMAIN data} |->
     IF \E k \in DOMAIN data : k # s /\ to_snake_case(k) = s
       THEN data[CHOOSE k \in DOMAIN data : k # s /\ to_snake_case(k) = s]
       ELSE data[s]]

\* the "remove extra fields" loop, run when not is_debug()
RemoveExtra(c, data) ==
  [k \in {y \in DOMAIN data : y = "api" \/ y \in FieldNames(c)} |->
     IF k = "api" THEN data[k] ELSE convert_unifi_data(data[k], Field(c, k))]

\* timedelta(milliseconds=int(x)); int() of a value that is no number raises
TimeDeltaOfMs(x) == IF x.kind = "int" THEN TimeDelta(x.v) ELSE Err

\* if "lastSeen" in data: data["lastSeen"] = process_datetime(data, "lastSeen")
LastSeenProcessed(data) ==
  IF Has(data, "lastSeen")
    THEN Put(data, "lastSeen", process_datetime(data, "lastSeen")) ELSE data

\* if "upSince" in data and data["upSince"] is not None: ...
UpSinceProcessed(data) ==
  IF Has(data, "upSince") /\ data["upSince"] # None
    THEN Put(data, "upSince", process_datetime(data, "upSince")) ELSE data

\* the uptime step without the isinstance(..., timedelta) test
UptimeConvertedAgain(data) ==
  IF Has(data, "uptime") /\ data["uptime"] # None
    THEN Put(data, "uptime", TimeDeltaOfMs(data["uptime"])) ELSE data

\* if "uptime" in data and ... is not None and not isinstance(..., timedelta): ...
UptimeConverted(data) ==
  IF Has(data, "uptime") /\ data["uptime"] # None /\ data["uptime"].kind # "timedelta"
    THEN Put(data, "uptime", TimeDeltaOfMs(data["uptime"])) ELSE data

\* ProtectDeviceModel.unifi_dict_to_dict, before super()
DevicePreprocess(data) == UptimeConverted(UpSinceProcessed(LastSeenProcessed(data)))

\* The operators below take the cache as it is when the call starts and return
\* [r |-> the result, t |-> the classes whose _get_protect_* methods the call
\* invoked, in order]; an action folds t into the cache (Touched). Within one
\* call no class is introspected after one of its ancestors (a call visits its
\* own class first and the nested fields in declaration order, wifi before
\* bluetooth), so every lookup a call makes sees what GetProtect gives on the
\* cache at the start of the call.
RECURSIVE Touched(_, _)
Touched(ch, t) ==
  IF t = << >> THEN ch
  ELSE IF AttrOwner(ch, Head(t)) # "none" THEN Touched(ch, Tail(t))
  ELSE Touched(SetProtectSubtypes(ch, Head(t)), Tail(t))

\* the maps the three getters return for c
GotObjs(g) == g.ch[g.owner].objs
GotLists(g) == g.ch[g.owner].lists
GotDicts(g) == g.ch[g.owner].dicts
ProtectObjs(ch, c) == GotObjs(GetProtect(ch, c))
ProtectLists(ch, c) == GotLists(GetProtect(ch, c))
ProtectDicts(ch, c) == GotDicts(GetProtect(ch, c))
\* and their keys in iteration order
GotObjKeys(g) == KeysInOrder(g.owner, GotObjs(g))
GotListKeys(g) == KeysInOrder(g.owner, GotLists(g))
GotDictKeys(g) == KeysInOrder(g.owner, GotDicts(g))
ObjKeys(ch, c) == GotObjKeys(GetProtect(ch, c))
ListKeys(ch, c) == GotListKeys(GetProtect(ch, c))
DictKeys(ch, c) == GotDictKeys(GetProtect(ch, c))

\* results with their traces: a result that called no getter, a trace put in
\* front, a list built item by item, a value stored under a key, a Python
\* list or dict around a sequence or mapping, a getter call of c noted
NoTrace(x) == [r |-> x, t |-> << >>]
Traced(t, res) == [r |-> res.r, t |-> t \o res.t]
Cons(first, rest) == [r |-> <<first.r>> \o rest.r, t |-> first.t \o rest.t]
Stored(acc, key, res) == [r |-> Put(acc.r, key, res.r), t |-> acc.t \o res.t]
Wrapped(kind, res) == [r |-> [kind |-> kind, v |-> res.r], t |-> res.t]
Mark(acc, c) == [r |-> acc.r, t |-> acc.t \o <<c>>]

RECURSIVE unifi_dict_to_dict(_, _, _)
RECURSIVE CleanLoop(_, _, _, _, _, _)
RECURSIVE clean_protect_obj_list(_, _, _, _)
RECURSIVE CleanDictItems(_, _, _, _, _)

\* cls._clean_protect_obj(data, klass, api)
clean_protect_obj(ch, x, klass, api) ==
  IF IsDict(x)
    THEN Wrapped("dict", unifi_dict_to_dict(ch, klass,
                                            IF api # None THEN Put(x.v, "api", api) ELSE x.v))
    ELSE NoTrace(x)

\* cls._clean_protect_obj_list(items, klass, api), items a sequence
clean_protect_obj_list(ch, items, klass, api) ==
  IF items = << >> THEN NoTrace(<< >>)
  ELSE Cons(clean_protect_obj(ch, Head(items), klass, api),
            clean_protect_obj_list(ch, Tail(items), klass, api))

\* the loop of _clean_protect_obj_dict; acc holds the items cleaned so far
CleanDictItems(ch, acc, keys, klass, api) ==
  IF keys = << >> THEN acc
  ELSE CleanDictItems(ch,
                      Stored(acc, Head(keys),
                             clean_protect_obj(ch, acc.r[Head(keys)], klass, api)),
                      Tail(keys), klass, api)

\* cls._clean_protect_obj_dict(items, klass, api), items a mapping
clean_protect_obj_dict(ch, items, klass, api) ==
  CleanDictItems(ch, NoTrace(items), SetToSeq(DOMAIN items), klass, api)

\* the guard of each "clean child UFP objs" loop; mode names the loop
\* ("obj": no type test; "list"/"dict": only a list / a dict value)
CleanApplies(data, key, mode) ==
  /\ Has(data, key)
  /\ \/ mode = "obj"
     \/ mode = "list" /\ IsList(data[key])
     \/ mode = "dict" /\ IsDict(data[key])

\* the body of each loop
CleanValue(ch, x, klass, api, mode) ==
  CASE mode = "obj" -> clean_protect_obj(ch, x, klass, api)
    [] mode = "list" -> Wrapped("list", clean_protect_obj_list(ch, x.v, klass, api))
    [] OTHER -> Wrapped("dict", clean_protect_obj_dict(ch, x.v, klass, api))

\* one of the three loops of unifi_dict_to_dict; acc holds data so far
CleanLoop(ch, acc, keys, map, api, mode) ==
  IF keys = << >> THEN acc
  ELSE CleanLoop(ch,
                 IF CleanApplies(acc.r, Head(keys), mode)
                   THEN Stored(acc, Head(keys),
                               CleanValue(ch, acc.r[Head(keys)], map[Head(keys)], api, mode))
                   ELSE acc,
                 Tail(keys), map, api, mode)

\* unifi_dict_to_dict without its "remove extra fields" step
ExtraNeverRemoved(c, data) == data

\* the keys that unifi_dict_to_dict keeps: all of them in debug mode
ExtraRemoved(c, data) == IF ~debug THEN RemoveExtra(c, data) ELSE data

\* ProtectBaseObject.unifi_dict_to_dict(data)
BaseUnifiDictToDict(ch, c, data) ==
  CleanLoop(ch,
            Mark(CleanLoop(ch,
                           Mark(CleanLoop(ch,
                                          [r |-> ExtraRemoved(c, SnakeKeys(ApplyRemaps(data, get_unifi_remaps(c)))),
                                           t |-> <<c>>],
                                          ObjKeys(ch, c), ProtectObjs(ch, c),
                                          Get(data, "api"), "obj"),
                                c),
                           ListKeys(ch, c), ProtectLists(ch, c), Get(data, "api"), "list"),
                 c),
            DictKeys(ch, c), ProtectDicts(ch, c), Get(data, "api"), "dict")

\* cls.unifi_dict_to_dict(data), with ProtectDeviceModel's override
unifi_dict_to_dict(ch, c, data) ==
  BaseUnifiDictToDict(ch, c,
                      IF IsSubclass(c, "ProtectDeviceModel")
                        THEN DevicePreprocess(data) ELSE data)

(* --------------------------- object construction ---------------------- *)

\* pydantic's BaseModel.construct: no validation; a field that is not given and
\* not required gets its default (None for every such field of the model)
PydanticConstruct(c, values, api) ==
  MkObj(c,
        [k \in (DOMAIN values) \cup {n \in FieldNames(c) : ~Field(c, n).required} |->
           IF k \in DOMAIN values THEN values[k] ELSE None],
        api)

RECURSIVE construct(_, _, _)
RECURSIVE ConstructLoop(_, _, _, _, _)
RECURSIVE ConstructList(_, _, _)
RECURSIVE ConstructDictItems(_, _, _, _)

\* klass.construct(**v) if isinstance(v, dict) else v
ConstructIfDict(ch, x, klass) ==
  IF IsDict(x) THEN construct(ch, klass, x.v) ELSE NoTrace(x)

ConstructList(ch, items, klass) ==
  IF items = << >> THEN NoTrace(<< >>)
  ELSE Cons(ConstructIfDict(ch, Head(items), klass), ConstructList(ch, Tail(items), klass))

ConstructDictItems(ch, acc, keys, klass) ==
  IF keys = << >> THEN acc
  ELSE ConstructDictItems(ch,
                          Stored(acc, Head(keys), ConstructIfDict(ch, acc.r[Head(keys)], klass)),
                          Tail(keys), klass)

\* the guard of each loop of construct
ConstructApplies(values, key, mode) ==
  /\ Has(values, key)
  /\ IF mode = "list" THEN IsList(values[key]) ELSE IsDict(values[key])

\* the body of each loop of construct
ConstructValue(ch, x, klass, mode) ==
  CASE mode = "obj" -> construct(ch, klass, x.v)
    [] mode = "list" -> Wrapped("list", ConstructList(ch, x.v, klass))
    [] OTHER -> Wrapped("dict", ConstructDictItems(ch, NoTrace(x.v),
                                                   SetToSeq(DOMAIN x.v), klass))

\* the three loops of construct over _get_protect_objs / _lists / _dicts
ConstructLoop(ch, acc, keys, map, mode) ==
  IF keys = << >> THEN acc
  ELSE ConstructLoop(ch,
                     IF ConstructApplies(acc.r, Head(keys), mode)
                       THEN Stored(acc, Head(keys),
                                   ConstructValue(ch, acc.r[Head(keys)], map[Head(keys)], mode))
                       ELSE acc,
                     Tail(keys), map, mode)

\* obj = super().construct(**values); obj._api = api
Built(c, api, res) == [r |-> PydanticConstruct(c, res.r, api), t |-> res.t]

\* ProtectBaseObject.construct(**values): the fast, unvalidated constructor
construct(ch, c, values) ==
  Built(c, Get(values, "api"),
        ConstructLoop(ch,
                      Mark(ConstructLoop(ch,
                                         Mark(ConstructLoop(ch,
                                                            [r |-> Pop(values, "api"), t |-> <<c>>],
                                                            ObjKeys(ch, c), ProtectObjs(ch, c),
                                                            "obj"),
                                              c),
                                         ListKeys(ch, c), ProtectLists(ch, c), "list"),
                           c),
                      DictKeys(ch, c), ProtectDicts(ch, c), "dict"))

\* pydantic's validation of one scalar value against a field's declared type
\* (the inputs of the model give every scalar field a value of its own kind or
\* the wire form of it)
ValidateScalar(x, f) ==
  CASE x = None -> IF f.required THEN Err ELSE None
    [] f.type = "ModelType" -> IF x.kind = "str" THEN EnumV(x.v)
                               ELSE IF x.kind = "enum" THEN x ELSE Err
    [] f.type = "datetime" -> IF x.kind = "int" THEN DateTime(x.v)
                              ELSE IF x.kind = "datetime" THEN x ELSE Err
    [] f.type = "timedelta" -> IF x.kind \in {"int", "timedelta"} THEN TimeDelta(x.v) ELSE Err
    [] f.type = "int" -> IF x.kind = "int" THEN x ELSE Err
    [] f.type = "str" -> IF x.kind = "str" THEN x ELSE Err
    [] f.type = "bool" -> IF x.kind = "bool" THEN x ELSE Err
    [] OTHER -> Err

RECURSIVE Validate(_, _, _)

\* pydantic's validation of a value against a Typed Object type: a dict goes
\* through klass(**value), i.e. ProtectBaseObject.__init__(api=..., **data)
ValidateModel(x, klass) ==
  CASE IsDict(x) -> Validate(klass, Pop(x.v, "api"), Get(x.v, "api"))
    [] IsObj(x) -> IF IsSubclass(x.cls, klass) THEN x ELSE Err
    [] OTHER -> Err

ValidateField(x, f) ==
  CASE ~IsProtectType(f.type) -> ValidateScalar(x, f)
    [] x = None -> IF f.required THEN Err ELSE None
    [] f.shape = SHAPE_SINGLETON -> ValidateModel(x, f.type)
    [] f.shape = SHAPE_LIST ->
         IF ~IsList(x) \/ (\E i \in 1..Len(x.v) : ValidateModel(x.v[i], f.type) = Err)
           THEN Err
           ELSE List([i \in 1..Len(x.v) |-> ValidateModel(x.v[i], f.type)])
    [] OTHER ->
         IF ~IsDict(x) \/ (\E k \in DOMAIN x.v : ValidateModel(x.v[k], f.type) = Err)
           THEN Err
           ELSE Dict([k \in DOMAIN x.v |-> ValidateModel(x.v[k], f.type)])

\* ProtectBaseObject.__init__(api, **data): pydantic's validating constructor;
\* keys that are no field are ignored, Err stands for ValidationError
Validate(c, data, api) ==
  LET val(n) == IF Has(data, n) THEN ValidateField(data[n], Field(c, n))
                ELSE IF Field(c, n).required THEN Err ELSE None
  IN IF \E n \in FieldNames(c) : val(n) = Err THEN Err
     ELSE MkObj(c, [n \in FieldNames(c) |-> val(n)], api)

\* from_unifi_dict after data = cls.unifi_dict_to_dict(data)
FromConverted(ch, c, api, conv) ==
  IF debug
    THEN [r |-> Validate(c, Pop(conv.r, "api"), api), t |-> conv.t]
    ELSE Traced(conv.t, construct(Touched(ch, conv.t), c, conv.r))

\* cls.from_unifi_dict(api, **data)
from_unifi_dict(ch, c, api, data) ==
  FromConverted(ch, c, api, unifi_dict_to_dict(ch, c, Put(data, "api", api)))

(* ------------------------ native -> wire conversion ------------------- *)

\* pydantic's recursive dump of a value: a nested model becomes a dict
RECURSIVE ToPlain(_)
ToPlain(x) ==
  CASE x.kind = "obj" -> Dict([k \in DOMAIN x.v |-> ToPlain(x.v[k])])
    [] x.kind = "dict" -> Dict([k \in DOMAIN x.v |-> ToPlain(x.v[k])])
    [] x.kind = "list" -> List([i \in 1..Len(x.v) |-> ToPlain(x.v[i])])
    [] OTHER -> x

\* self.dict(exclude=excluded_fields)
SelfDict(self, excluded_fields) ==
  [k \in (DOMAIN self.v) \ excluded_fields |-> ToPlain(self.v[k])]

\* the reverse remap loop of unifi_dict
RECURSIVE ReverseRemaps(_, _)
ReverseRemaps(data, rm) ==
  IF rm = << >> THEN data
  ELSE LET to_key == Head(rm)[1]
           from_key == Head(rm)[2]
       IN ReverseRemaps(IF Has(data, from_key)
                          THEN Put(Pop(data, from_key), to_key, data[from_key])
                          ELSE data,
                        Tail(rm))

DelIfNone(data, k) == IF Has(data, k) /\ data[k] = None THEN Pop(data, k) ELSE data

\* the part of ProtectModel.unifi_dict after super()
ModelCleanup(data) == DelIfNone(data, "modelKey")

\* the part of ProtectAdoptableDeviceModel.unifi_dict after super()
AdoptableCleanup(data) ==
  DelIfNone(DelIfNone(DelIfNone(DelIfNone(data, "wiredConnectionState"),
                                "wifiConnectionState"),
                      "bluetoothConnectionState"),
            "bridge")

\* the part of ProtectMotionDeviceModel.unifi_dict after super()
MotionCleanup(data) == Pop(data, "lastMotionEventId")

RECURSIVE unifi_dict(_, _, _, _)
RECURSIVE UnifiDictLoop(_, _, _, _, _, _)
RECURSIVE SerializeItems(_, _)
RECURSIVE SerializeDictItems(_, _, _)

\* item.unifi_dict() if isinstance(item, ProtectBaseObject)
UnifiDictIfObj(ch, x) ==
  IF IsObj(x) THEN Wrapped("dict", unifi_dict(ch, x, None, None)) ELSE NoTrace(x)

SerializeItems(ch, items) ==
  IF items = << >> THEN NoTrace(<< >>)
  ELSE Cons(UnifiDictIfObj(ch, Head(items)), SerializeItems(ch, Tail(items)))

SerializeDictItems(ch, acc, keys) ==
  IF keys = << >> THEN acc
  ELSE SerializeDictItems(ch,
                          Stored(acc, Head(keys), UnifiDictIfObj(ch, acc.r[Head(keys)])),
                          Tail(keys))

\* what _unifi_dict_protect_obj / _obj_list / _obj_dict make of value
UnifiDictValue(ch, value, mode) ==
  CASE mode = "obj" -> UnifiDictIfObj(ch, value)
    [] mode = "list" ->
         IF ~IsList(value) THEN NoTrace(value)
         ELSE Wrapped("list", SerializeItems(ch, value.v))
    [] OTHER ->
         IF ~IsDict(value) THEN NoTrace(value)
         ELSE Wrapped("dict", SerializeDictItems(ch, NoTrace(value.v),
                                                 SetToSeq(DOMAIN value.v)))

\* self._unifi_dict_protect_obj / _obj_list / _obj_dict (data, key, use_obj)
UnifiDictProtect(ch, self, data, key, use_obj, mode) ==
  UnifiDictValue(ch, IF use_obj THEN self.v[key] ELSE Get(data, key), mode)

\* for key in self._get_protect_*().keys(): if use_obj or key in data: data[key] = ...
\* (acc holds data so far)
UnifiDictLoop(ch, self, acc, keys, use_obj, mode) ==
  IF keys = << >> THEN acc
  ELSE UnifiDictLoop(ch, self,
                     IF use_obj \/ Has(acc.r, Head(keys))
                       THEN Stored(acc, Head(keys),
                                   UnifiDictProtect(ch, self, acc.r, Head(keys), use_obj, mode))
                       ELSE acc,
                     Tail(keys), use_obj, mode)

\* the fields left out of the shallow dump when unifi_dict serializes self
ExcludedFields(objs, lists, exclude) ==
  ((DOMAIN objs) \cup (DOMAIN lists)) \cup (IF exclude # None THEN exclude.v ELSE {})

\* the data the loops of unifi_dict start from, and the getter calls made for it
UnifiDictData(ch, self, data, exclude) ==
  IF data = None
    THEN [r |-> SelfDict(self, ExcludedFields(ProtectObjs(ch, self.cls),
                                              ProtectLists(ch, self.cls), exclude)),
          t |-> <<self.cls, self.cls, self.cls>>]
    ELSE [r |-> data.v, t |-> <<self.cls>>]

\* the end of unifi_dict: serialize_unifi_obj, reverse remaps, del data["api"]
Serialized(c, res) ==
  [r |-> Pop(ReverseRemaps(serialize_unifi_obj(Dict(res.r)).v, get_unifi_remaps(c)), "api"),
   t |-> res.t]

\* ProtectBaseObject.unifi_dict(data, exclude); data is None or a Dict,
\* exclude is None or [kind |-> "set", v |-> a set of field names]
BaseUnifiDict(ch, self, data, exclude) ==
  Serialized(self.cls,
    UnifiDictLoop(ch, self,
      Mark(UnifiDictLoop(ch, self,
             Mark(UnifiDictLoop(ch, self, UnifiDictData(ch, self, data, exclude),
                                ObjKeys(ch, self.cls), data = None, "obj"),
                  self.cls),
             ListKeys(ch, self.cls), data = None, "list"),
           self.cls),
      DictKeys(ch, self.cls), data = None, "dict"))

\* the parts of the subclasses' unifi_dict after super().unifi_dict()
Overrides(c, data) ==
  LET m1 == IF IsSubclass(c, "ProtectModel") THEN ModelCleanup(data) ELSE data
      m2 == IF IsSubclass(c, "ProtectAdoptableDeviceModel") THEN AdoptableCleanup(m1) ELSE m1
  IN IF IsSubclass(c, "ProtectMotionDeviceModel") THEN MotionCleanup(m2) ELSE m2

\* the result of super().unifi_dict() after the overrides
Overridden(c, base) == [r |-> Overrides(c, base.r), t |-> base.t]

\* self.unifi_dict(data, exclude), with the overrides of the device hierarchy
unifi_dict(ch, self, data, exclude) ==
  Overridden(self.cls, BaseUnifiDict(ch, self, data, exclude))

(* ----------------------------- partial update ------------------------- *)

\* self.copy(update=data): a shallow copy that takes the private attributes
\* (_api) over and does not validate the update
PydanticCopy(self, data) == MkObj(self.cls, Update(self.v, data), self.api)

RECURSIVE update_from_dict(_, _, _)
RECURSIVE UpdateLoop(_, _, _)

\* setattr(self, key, <result of the nested update_from_dict>) with the key
\* popped from data; err: the nested call raised, and the loop ends there
SetAttr(st, key, res) ==
  [self |-> IF res.r = Err THEN st.self
            ELSE [st.self EXCEPT !.v = Put(st.self.v, key, res.r)],
   data |-> Pop(st.data, key),
   t |-> st.t \o res.t,
   err |-> res.r = Err]

\* one round of the loop of update_from_dict
UpdateKey(ch, st, key) ==
  IF ~(Has(st.data, key) /\ Get(st.self.v, key) # None /\ IsObj(Get(st.self.v, key)))
    THEN st
    ELSE SetAttr(st, key, update_from_dict(ch, st.self.v[key], st.data[key]))

\* the loop of update_from_dict over self._get_protect_objs().keys();
\* st is [self, data, t, err] so far
UpdateLoop(ch, st, keys) ==
  IF keys = << >> \/ st.err THEN st
  ELSE UpdateLoop(ch, UpdateKey(ch, st, Head(keys)), Tail(keys))

\* the merge without new_data["api"] = self._api
MergeIntoWithoutApi(ch, self, data) ==
  IF debug
    THEN NoTrace(PydanticCopy(self, data))
    ELSE construct(ch, self.cls, Update(SelfDict(self, {}), data))

\* the merge that ends update_from_dict: copy(update=data) in debug mode,
\* dump + overlay + construct otherwise
MergeInto(ch, self, data) ==
  IF debug
    THEN NoTrace(PydanticCopy(self, data))
    ELSE construct(ch, self.cls, Put(Update(SelfDict(self, {}), data), "api", self.api))

\* the delta without the back-reference key
WithoutApi(data) == IF Has(data, "api") THEN Pop(data, "api") ELSE data

\* what update_from_dict returns: r the new object (Err: the call raised),
\* self the receiver after the call
Returned(lp, merged) == [r |-> merged.r, self |-> lp.self, t |-> lp.t \o merged.t]

\* update_from_dict after its loop
Merged(ch, lp) ==
  IF lp.err THEN [r |-> Err, self |-> lp.self, t |-> lp.t]
  ELSE Returned(lp, MergeInto(Touched(ch, lp.t), lp.self, WithoutApi(lp.data)))

\* self.update_from_dict(data), data a value (a Dict, when the caller is right)
update_from_dict(ch, self, data) ==
  IF ~IsDict(data) THEN [r |-> Err, self |-> self, t |-> <<self.cls>>]
  ELSE Merged(ch, UpdateLoop(ch,
                             [self |-> self, data |-> data.v, t |-> <<self.cls>>, err |-> FALSE],
                             ObjKeys(ch, self.cls)))

\* the result of update_from_dict with the getter calls of the conversion first
AfterConversion(t, upd) == [r |-> upd.r, self |-> upd.self, t |-> t \o upd.t]

\* update_from_unifi_dict after data = self.unifi_dict_to_dict(data)
UpdateConverted(ch, self, conv) ==
  AfterConversion(conv.t, update_from_dict(Touched(ch, conv.t), self, Dict(conv.r)))

\* self.update_from_unifi_dict(data)
update_from_unifi_dict(ch, self, data) ==
  UpdateConverted(ch, self, unifi_dict_to_dict(ch, self.cls, data))

(* ------------------------------- inputs ------------------------------- *)

\* a dict literal from a set of <<key, value>> pairs with distinct keys
D(pairs) == [k \in {p[1] : p \in pairs} |-> (CHOOSE p \in pairs : p[1] = k)[2]]

ApiA == ApiRef("A")
ApiB == ApiRef("B")

SetV(S) == [kind |-> "set", v |-> S]

\* decoded UFP JSON payloads, each with the class it is given to
WireInputs ==
  { <<"ProtectDeviceModel",
      D({<<"id", StrV("d1")>>, <<"lastSeen", IntV(1)>>, <<"uptime", IntV(2)>>,
         <<"modelKey", StrV("camera")>>, <<"totallyUnknownField", IntV(9)>>})>>,
    <<"ProtectAdoptableDeviceModel",
      D({<<"id", StrV("d1")>>, <<"lastSeen", IntV(1)>>, <<"modelKey", StrV("camera")>>,
         <<"wiredConnectionState", Dict(D({<<"phyRate", IntV(5)>>}))>>,
         <<"wifiConnectionState", Dict(D({<<"phyRate", IntV(5)>>, <<"channel", IntV(1)>>}))>>,
         <<"bridge", StrV("b1")>>})>>,
    <<"ProtectAdoptableDeviceModel",
      D({<<"id", StrV("d1")>>, <<"lastSeen", IntV(1)>>, <<"wiredConnectionState", None>>})>>,
    <<"ProtectMotionDeviceModel",
      D({<<"id", StrV("d1")>>, <<"lastSeen", IntV(1)>>, <<"uptime", IntV(2)>>,
         <<"isDark", BoolV(TRUE)>>, <<"lastMotionEventId", StrV("e1")>>,
         <<"bluetoothConnectionState",
           Dict(D({<<"signalQuality", IntV(3)>>, <<"totallyUnknownField", IntV(9)>>}))>>})>>,
    <<"NestedHolder",
      D({<<"items", List(<<Dict(D({<<"phyRate", IntV(5)>>})),
                           Dict(D({<<"phyRate", IntV(10)>>}))>>)>>,
         <<"lookup", Dict(D({<<"a", Dict(D({<<"phyRate", IntV(5)>>}))>>}))>>,
         <<"totallyUnknownField", IntV(9)>>})>>,
    <<"WifiConnectionState",
      D({<<"phyRate", IntV(5)>>, <<"channel", IntV(1)>>, <<"signalQuality", IntV(3)>>})>> }

\* payloads given to unifi_dict_to_dict alone: the above, one-key payloads of
\* the remapped keys, a payload that carries the back-reference, and one that
\* has a key in both spellings
ConvInputs ==
  WireInputs \cup
  { <<"ProtectModel", D({<<"modelKey", StrV("camera")>>})>>,
    <<"ProtectAdoptableDeviceModel", D({<<"modelKey", StrV("light")>>})>>,
    <<"ProtectAdoptableDeviceModel", D({<<"bridge", StrV("b1")>>})>>,
    <<"ProtectModelWithId", D({<<"bridge", StrV("b1")>>, <<"id", StrV("d1")>>})>>,
    <<"ProtectAdoptableDeviceModel",
      D({<<"api", ApiA>>, <<"bridge", StrV("b1")>>, <<"bridgeId", StrV("b2")>>,
         <<"wiredConnectionState", Dict(D({<<"phyRate", IntV(5)>>, <<"phy_rate", IntV(6)>>}))>>,
         <<"totallyUnknownField", IntV(1)>>, <<"unknown", IntV(2)>>})>> }

\* keyword arguments given to the class constructor itself (native spelling)
NewInputs ==
  { <<"ProtectAdoptableDeviceModel",
      D({<<"id", StrV("d1")>>, <<"last_seen", DateTime(1)>>, <<"model", EnumV("camera")>>,
         <<"wired_connection_state", Dict(D({<<"phy_rate", IntV(5)>>}))>>,
         <<"bridge_id", StrV("b1")>>})>>,
    <<"ProtectMotionDeviceModel",
      D({<<"id", StrV("d1")>>, <<"last_seen", DateTime(1)>>, <<"is_dark", BoolV(FALSE)>>,
         <<"wifi_connection_state",
           Dict(D({<<"phy_rate", IntV(5)>>, <<"channel", IntV(1)>>}))>>})>> }

\* cleaned (native) deltas given to update_from_dict
NativeDeltas ==
  { D({<<"wifi_connection_state", Dict(D({<<"phy_rate", IntV(10)>>}))>>}),
    D({<<"wired_connection_state", Dict(D({<<"phy_rate", IntV(10)>>}))>>, <<"api", ApiB>>}),
    D({<<"uptime", TimeDelta(7)>>}),
    D({<<"bridge_id", StrV("b2")>>, <<"api", ApiB>>}),
    D({<<"wired_connection_state", None>>}),
    D({<<"phy_rate", IntV(10)>>}) }

\* uncleaned (wire) deltas given to update_from_unifi_dict
WireDeltas ==
  { D({<<"wifiConnectionState", Dict(D({<<"phyRate", IntV(10)>>}))>>}),
    D({<<"uptime", IntV(7)>>, <<"api", ApiB>>}),
    D({<<"bridge", StrV("b2")>>}),
    D({<<"totallyUnknownField", IntV(1)>>,
       <<"wiredConnectionState", Dict(D({<<"phyRate", IntV(10)>>}))>>}) }

\* the exclude argument of unifi_dict
Excludes ==
  { None, SetV({"id"}), SetV({"wired_connection_state", "bridge_id"}),
    SetV({"items"}), SetV({"lookup"}) }

(* ---------------------------- state machine --------------------------- *)

NoCall ==
  [op |-> "none", cls |-> "none", arg |-> None, api |-> None, excl |-> None,
   ret |-> None, before |-> None, after |-> None, n |-> 0]

Init ==
  /\ debug \in BOOLEAN
  /\ cache = [c \in Classes |-> Unset]
  /\ obj = None
  /\ hist = NoCall
  /\ calls = 0
  /\ origin = None

\* a map of field names to classes, as a value
MapV(m) == Dict([k \in DOMAIN m |-> StrV(m[k])])

\* the api argument of the from_unifi_dict call that built the graph the
\* caller's object descends from, after the call recorded in h: a constructor
\* that returns starts a new graph, every other call keeps the graph's origin
OriginAfter(h) ==
  IF h.ret = Err \/ h.op \notin {"from_unifi_dict", "__init__"} THEN origin
  ELSE IF h.op = "from_unifi_dict" THEN h.api ELSE None

\* a call returns: the record of it, the memos and the caller's object after it
Call(h, ch, o) ==
  /\ calls < MaxCalls
  /\ calls' = calls + 1
  /\ hist' = h
  /\ cache' = ch
  /\ obj' = o
  /\ origin' = OriginAfter(h)
  /\ UNCHANGED debug

\* the record of a getter call that returned map
GetterCall(op, c, g, map) ==
  [NoCall EXCEPT !.op = op, !.cls = c, !.ret = MapV(map), !.n = g.ch[c].n]

GotProtectObjs(c, g) == Call(GetterCall("_get_protect_objs", c, g, GotObjs(g)), g.ch, obj)
GotProtectLists(c, g) == Call(GetterCall("_get_protect_lists", c, g, GotLists(g)), g.ch, obj)
GotProtectDicts(c, g) == Call(GetterCall("_get_protect_dicts", c, g, GotDicts(g)), g.ch, obj)

\* cls._get_protect_objs()
GetProtectObjs(c) == GotProtectObjs(c, GetProtect(cache, c))

\* cls._get_protect_lists()
GetProtectLists(c) == GotProtectLists(c, GetProtect(cache, c))

\* cls._get_protect_dicts()
GetProtectDicts(c) == GotProtectDicts(c, GetProtect(cache, c))

FromUnifiDictReturns(c, api, data, res) ==
  Call([NoCall EXCEPT !.op = "from_unifi_dict", !.cls = c, !.arg = Dict(data),
                      !.api = api, !.ret = res.r, !.before = obj],
       Touched(cache, res.t),
       IF res.r = Err THEN obj ELSE res.r)

\* obj = cls.from_unifi_dict(api, **data); a ValidationError leaves obj as it was
FromUnifiDict(c, api, data) ==
  FromUnifiDictReturns(c, api, data, from_unifi_dict(cache, c, api, data))

NewReturns(c, api, data, r) ==
  Call([NoCall EXCEPT !.op = "__init__", !.cls = c, !.arg = Dict(data),
                      !.api = api, !.ret = r, !.before = obj],
       cache,
       IF r = Err THEN obj ELSE r)

\* obj = cls(api, **data): the validating constructor, in either mode
New(c, api, data) == NewReturns(c, api, data, Validate(c, data, api))

UnifiDictToDictReturns(c, data, res) ==
  Call([NoCall EXCEPT !.op = "unifi_dict_to_dict", !.cls = c, !.arg = Dict(data),
                      !.ret = Dict(res.r)],
       Touched(cache, res.t),
       obj)

\* cls.unifi_dict_to_dict(data)
UnifiDictToDict(c, data) ==
  UnifiDictToDictReturns(c, data, unifi_dict_to_dict(cache, c, data))

UnifiDictReturns(exclude, res) ==
  Call([NoCall EXCEPT !.op = "unifi_dict", !.cls = obj.cls, !.excl = exclude,
                      !.ret = Dict(res.r), !.before = obj, !.after = obj],
       Touched(cache, res.t),
       obj)

\* obj.unifi_dict(exclude=exclude)
UnifiDict(exclude) ==
  /\ obj # None
  /\ UnifiDictReturns(exclude, unifi_dict(cache, obj, None, exclude))

UpdateReturns(op, data, res) ==
  Call([NoCall EXCEPT !.op = op, !.cls = obj.cls, !.arg = Dict(data), !.ret = res.r,
                      !.before = obj, !.after = res.self],
       Touched(cache, res.t),
       IF res.r = Err THEN res.self ELSE res.r)

\* obj = obj.update_from_dict(data); when the call raises, obj stays the receiver
UpdateFromDict(data) ==
  /\ obj # None
  /\ (DOMAIN data) \ {"api"} \subseteq FieldNames(obj.cls)
  /\ UpdateReturns("update_from_dict", data, update_from_dict(cache, obj, Dict(data)))

\* obj = obj.update_from_unifi_dict(data)
UpdateFromUnifiDict(data) ==
  /\ obj # None
  /\ UpdateReturns("update_from_unifi_dict", data, update_from_unifi_dict(cache, obj, data))

Next ==
  \/ \E c \in Classes : GetProtectObjs(c)
  \/ \E c \in Classes : GetProtectLists(c)
  \/ \E c \in Classes : GetProtectDicts(c)
  \/ \E w \in WireInputs, api \in {None, ApiA} : FromUnifiDict(w[1], api, w[2])
  \/ \E w \in NewInputs : New(w[1], ApiA, w[2])
  \/ \E w \in ConvInputs : UnifiDictToDict(w[1], w[2])
  \/ \E e \in Excludes : UnifiDict(e)
  \/ \E d \in NativeDeltas : UpdateFromDict(d)
  \/ \E d \in WireDeltas : UpdateFromUnifiDict(d)

Spec == Init /\ [][Next]_vars

(* -------------------------------- claims ------------------------------ *)

Getters == {"_get_protect_objs", "_get_protect_lists", "_get_protect_dicts"}
Updates == {"update_from_dict", "update_from_unifi_dict"}

\* the fields a class's unifi_dict removes from the wire dict whatever they hold
DroppedOnPurpose(c) ==
  IF IsSubclass(c, "ProtectMotionDeviceModel") THEN {"last_motion_event_id"} ELSE {}

\* back is an object of x's class with x's value in every populated field of x
\* that the class does not drop on purpose
SameOnPopulated(x, back) ==
  /\ IsObj(back)
  /\ back.cls = x.cls
  /\ \A k \in (FieldNames(x.cls) \cap DOMAIN x.v) \ DroppedOnPurpose(x.cls) :
       x.v[k] # None => k \in DOMAIN back.v /\ ToPlain(back.v[k]) = ToPlain(x.v[k])

\* C1: for an object of a device-model class, unifi_dict followed by
\* unifi_dict_to_dict and construction gives an object of the class with the
\* original's value in every populated field the class does not drop on
\* purpose (objects compare by their fields, as pydantic's __eq__ does).
C1_RoundTrip ==
  (/\ hist.op = "unifi_dict"
   /\ hist.excl = None
   /\ IsSubclass(hist.cls, "ProtectModel")) =>
    SameOnPopulated(hist.before,
                    from_unifi_dict(cache, hist.cls, hist.before.api, hist.ret.v).r)

\* some class reads the memo of an ancestor that was introspected before it
StaleMemo == \E c \in Classes : AttrOwner(cache, c) \notin {c, "none"}

\* the round trip of C1 fails in no state but one with a stale memo
C1_RoundTripUnlessStale == StaleMemo \/ C1_RoundTrip

\* the map of class c that the getter named op is meant to return
OwnMap(op, c) ==
  CASE op = "_get_protect_objs" -> SubtypesTable[c].objs
    [] op = "_get_protect_lists" -> SubtypesTable[c].lists
    [] OTHER -> SubtypesTable[c].dicts

\* C2: the map a getter returns for a class is the one computed from that
\* class's own fields, whatever was introspected before, and no class is
\* computed more than once.
C2_MemoizedPerClass ==
  /\ hist.op \in Getters => hist.ret = MapV(OwnMap(hist.op, hist.cls))
  /\ \A c \in Classes : cache[c].n <= 1

\* C3: for every introspected class, a field of a Typed Object type is in
\* exactly one of the three maps: list-shaped only in lists, mapping-shaped
\* only in dicts, any other only in objs.
C3_ExactlyOneMap ==
  \A c \in Classes :
    cache[c].set =>
      \A n \in {m \in FieldNames(c) : IsProtectType(Field(c, m).type)} :
        /\ (n \in DOMAIN cache[c].lists) = (Field(c, n).shape = SHAPE_LIST)
        /\ (n \in DOMAIN cache[c].dicts) = (Field(c, n).shape = SHAPE_DICT)
        /\ (n \in DOMAIN cache[c].objs) = (Field(c, n).shape = SHAPE_SINGLETON)

\* the declared single nested-object fields of a class
NestedObjFields(c) ==
  {n \in FieldNames(c) : IsProtectType(Field(c, n).type) /\ Field(c, n).shape = SHAPE_SINGLETON}

\* C4: after update_from_dict, a nested object that the delta gives only some
\* fields of has the delta's values for those and its previous values for the
\* others, in debug and in fast mode.
C4_NestedMergedFieldWise ==
  (hist.op = "update_from_dict" /\ hist.ret # Err) =>
    \A key \in NestedObjFields(hist.cls) :
      (/\ key \in DOMAIN hist.arg.v
       /\ IsDict(hist.arg.v[key])
       /\ IsObj(hist.before.v[key])) =>
        /\ IsObj(hist.ret.v[key])
        /\ \A f \in DOMAIN hist.before.v[key].v :
             /\ f \in DOMAIN hist.ret.v[key].v
             /\ hist.ret.v[key].v[f] =
                  IF f \in DOMAIN hist.arg.v[key].v
                    THEN hist.arg.v[key].v[f] ELSE hist.before.v[key].v[f]

\* C5: in debug mode update_from_dict leaves every field of the receiver,
\* nested objects included, as it was before the call.
C5_DebugUpdateLeavesReceiver ==
  (hist.op \in Updates /\ debug) => hist.after = hist.before

\* C6: the object returned by update_from_dict / update_from_unifi_dict has the
\* receiver's back-reference, and a delta's "api" key never ends up in it.
C6_BackReferencePreserved ==
  (hist.op \in Updates /\ hist.ret # Err) =>
    /\ hist.ret.api = hist.before.api
    /\ "api" \notin DOMAIN hist.ret.v

C6_Witness ==
  /\ hist.op \in Updates
  /\ hist.ret # Err
  /\ hist.before.api = ApiA
  /\ "api" \in DOMAIN hist.arg.v
  /\ hist.arg.v["api"] = ApiB
  /\ hist.ret # hist.before

\* the wire keys of a payload that no remap and no field of the class claims
UnknownKeys(c, data) ==
  {k \in DOMAIN data :
     /\ k # "api"
     /\ \A i \in 1..Len(get_unifi_remaps(c)) : get_unifi_remaps(c)[i][1] # k
     /\ to_snake_case(k) \notin FieldNames(c)}

\* C7: in normal mode the result of unifi_dict_to_dict has no key but declared
\* fields of the class and the back-reference key; in debug mode every unknown
\* wire key is kept under its snake_case form.
C7_UnknownFieldsDropped ==
  hist.op = "unifi_dict_to_dict" =>
    IF ~debug
      THEN (DOMAIN hist.ret.v) \subseteq (FieldNames(hist.cls) \cup {"api"})
      ELSE \A k \in UnknownKeys(hist.cls, hist.arg.v) : to_snake_case(k) \in DOMAIN hist.ret.v

C7_Witness ==
  /\ hist.op = "unifi_dict_to_dict"
  /\ ~debug
  /\ "totallyUnknownField" \in DOMAIN hist.arg.v
  /\ "totally_unknown_field" \notin DOMAIN hist.ret.v
  /\ "id" \in DOMAIN hist.ret.v

\* a value without its enum wrapper (a ModelType compares equal to its string)
Plain(x) == IF x.kind = "enum" THEN StrV(x.v) ELSE x

\* the pairs of a class's Remap Table
RemapPairs(c) == {get_unifi_remaps(c)[i] : i \in 1..Len(get_unifi_remaps(c))}

\* the key the table's entry to_key stands for: the entry itself, or its
\* snake_case form
NativeKey(to_key, snake) == IF snake THEN to_snake_case(to_key) ELSE to_key

\* unifi_dict_to_dict of the one-key payload {wireKey: v} gives {native key: v}
RemapToNative(snake) ==
  (hist.op = "unifi_dict_to_dict" /\ Cardinality(DOMAIN hist.arg.v) = 1) =>
    \A p \in RemapPairs(hist.cls) :
      p[1] \in DOMAIN hist.arg.v =>
        /\ DOMAIN hist.ret.v = {NativeKey(p[2], snake)}
        /\ Plain(hist.ret.v[NativeKey(p[2], snake)]) = hist.arg.v[p[1]]

\* unifi_dict of an object whose remapped field is not null has the wire key
\* with that value and no key of the field's mechanically converted spelling
RemapToWire ==
  (hist.op = "unifi_dict" /\ hist.excl = None) =>
    \A p \in RemapPairs(hist.cls) :
      LET n == to_snake_case(p[2])
      IN (n \in DOMAIN hist.before.v /\ hist.before.v[n] # None) =>
           /\ p[1] \in DOMAIN hist.ret.v
           /\ hist.ret.v[p[1]] = Plain(hist.before.v[n])
           /\ to_camel_case(n) \notin DOMAIN hist.ret.v

C9_Idempotent ==
  hist.op = "unifi_dict_to_dict" =>
    unifi_dict_to_dict(cache, hist.cls, hist.ret.v).r = hist.ret.v

C9_Witness ==
  /\ hist.op = "unifi_dict_to_dict"
  /\ IsSubclass(hist.cls, "ProtectDeviceModel")
  /\ "lastSeen" \in DOMAIN hist.arg.v
  /\ "uptime" \in DOMAIN hist.arg.v
  /\ hist.arg.v["uptime"].kind = "int"
  /\ hist.ret.v["uptime"].kind = "timedelta"
  /\ hist.ret.v # hist.arg.v

\* the wire key under which unifi_dict puts field n of class c
WireKey(c, n) ==
  LET camel == to_camel_case(n)
      hits == {p \in RemapPairs(c) : p[2] = camel}
  IN IF hits = {} THEN camel ELSE (CHOOSE p \in hits : TRUE)[1]

\* C10: the wire dict unifi_dict returns for self has no key for any field
\* named in exclude, whatever the kind of the field.
C10_ExcludedLeftOut ==
  (hist.op = "unifi_dict" /\ hist.excl # None) =>
    \A n \in hist.excl.v : WireKey(hist.cls, n) \notin DOMAIN hist.ret.v

\* the merge of C4 fails in no state but one with a stale memo
C4_MergedUnlessStale == StaleMemo \/ C4_NestedMergedFieldWise

\* every Typed Object in value x, x included, has back-reference a
RECURSIVE AllHave(_, _)
AllHave(x, a) ==
  CASE x.kind = "obj" -> x.api = a /\ \A k \in DOMAIN x.v : AllHave(x.v[k], a)
    [] x.kind = "dict" -> \A k \in DOMAIN x.v : AllHave(x.v[k], a)
    [] x.kind = "list" -> \A i \in 1..Len(x.v) : AllHave(x.v[i], a)
    [] OTHER -> TRUE

\* the nested-object, list-of-object and dict-of-object fields of class c
NestedFields(c) == {n \in FieldNames(c) : IsProtectType(Field(c, n).type)}

\* every Typed Object reachable from x through those fields has back-reference a
NestedHave(x, a) ==
  \A k \in NestedFields(x.cls) \cap DOMAIN x.v : AllHave(x.v[k], a)

\* C11: when the caller's object descends from a from_unifi_dict call with
\* back-reference A (A set), through any number of update_from_dict and
\* update_from_unifi_dict calls, every Typed Object reachable from it through
\* its nested fields has back-reference A.
C11_NestedBackReference ==
  (obj # None /\ origin # None) => NestedHave(obj, origin)

\* the same in the states where no class reads an ancestor's memo
C11_UnlessStale == StaleMemo \/ C11_NestedBackReference

\* and there in debug mode alone
C11_DebugUnlessStale == StaleMemo \/ ~debug \/ C11_NestedBackReference

\* a graph built with a back-reference, nested objects in it, after an update
C11_Updated ==
  /\ hist.op \in Updates /\ hist.ret # Err /\ origin # None
  /\ \E k \in NestedFields(obj.cls) \cap DOMAIN obj.v : IsObj(obj.v[k])

====
